---- MODULE Spec2Model ----
(***************************************************************************)
(* Model of the Tesla Powerwall integration (src/__init__.py).             *)
(*                                                                         *)
(* Two specifications share the module:                                    *)
(*   SpecMig  the legacy unique-id migrator applied to bounded inputs;     *)
(*   Spec     setup, the refresh cycle with re-login, and unload.          *)
(*                                                                         *)
(* Strings are sequences of one-character strings, so that split("_") and  *)
(* "_".join(...) are computed character by character.                     *)
(***************************************************************************)
EXTENDS Integers, Sequences, FiniteSets, TLC

\* ------------------------------------------------------------------ bounds
MaxIdLen == 5       \* longest registered unique_id, in characters
MaxSerials == 2     \* most serial numbers a gateway reports
MaxMigrations == 2  \* how often the migrator is run over the registry entry

\* ----------------------------------------------------------------- strings
Sep == "_"
Alphabet == {"1", "_", "a"}

\* Code-point order of the characters used ("1" < "_" < "a").
CharRank(c) == CASE c = "1" -> 49 [] c = "_" -> 95 [] c = "a" -> 97

Strings(n) == UNION {[1..k -> Alphabet] : k \in 0..n}

Min(a, b) == IF a <= b THEN a ELSE b

\* Python's str.split("_"): always at least one token, "" splits to [""].
RECURSIVE SplitFrom(_, _, _)
SplitFrom(s, i, cur) ==
    IF i > Len(s) THEN <<cur>>
    ELSE IF s[i] = Sep THEN <<cur>> \o SplitFrom(s, i + 1, <<>>)
    ELSE SplitFrom(s, i + 1, Append(cur, s[i]))

Split(s) == SplitFrom(s, 1, <<>>)

\* Python's "_".join(tokens): "" for no token.
RECURSIVE Join(_)
Join(toks) ==
    IF Len(toks) = 0 THEN <<>>
    ELSE IF Len(toks) = 1 THEN toks[1]
    ELSE toks[1] \o <<Sep>> \o Join(Tail(toks))

\* Python's string comparison a < b (lexicographic by code point).
RECURSIVE StrLess(_, _)
StrLess(a, b) ==
    IF Len(b) = 0 THEN FALSE
    ELSE IF Len(a) = 0 THEN TRUE
    ELSE IF a[1] # b[1] THEN CharRank(a[1]) < CharRank(b[1])
    ELSE StrLess(Tail(a), Tail(b))

IsSorted(l) == \A i \in 1..(Len(l) - 1) : ~StrLess(l[i + 1], l[i])

\* list.sort(): insertion into an ascending list.
RECURSIVE Insert(_, _)
Insert(x, l) ==
    IF Len(l) = 0 THEN <<x>>
    ELSE IF StrLess(x, l[1]) THEN <<x>> \o l
    ELSE <<l[1]>> \o Insert(x, Tail(l))

RECURSIVE Sort(_)
Sort(l) == IF Len(l) = 0 THEN <<>> ELSE Insert(l[1], Sort(Tail(l)))

\* ---------------------------------------------------------------- migrator
\* parts[0 : n] of Python: a slice never raises, it is cut at the list's end.
Slice0(parts, n) == SubSeq(parts, 1, Min(n, Len(parts)))

\* 1-based position of the last token equal to tok, 0 when there is none
\* (len(parts) - 1 - parts[::-1].index(tok), which raises ValueError then).
LastIndex(parts, tok) ==
    LET hits == {i \in 1..Len(parts) : parts[i] = tok}
    IN IF hits = {} THEN 0 ELSE CHOOSE i \in hits : \A j \in hits : j <= i

NoChange == [kind |-> "None", new_unique_id |-> <<>>]
Rewritten(id) == [kind |-> "new_unique_id", new_unique_id |-> id]
Raised(exc) == [kind |-> exc, new_unique_id |-> <<>>]

\* Variant: the suffix starts at the energy token instead of after it.
MigratorKeepsEnergyToken(uid, serials, energy) ==
    LET parts == Split(uid)
    IN IF Slice0(parts, Len(serials)) # serials
       THEN LET idx == LastIndex(parts, energy)
            IN IF idx = 0 THEN Raised("ValueError")
               ELSE Rewritten(Join(serials \o SubSeq(parts, idx, Len(parts))))
       ELSE NoChange

\* Variant: the new identifier puts the serial numbers after the suffix.
MigratorAppendsSerials(uid, serials, energy) ==
    LET parts == Split(uid)
    IN IF Slice0(parts, Len(serials)) # serials
       THEN LET idx == LastIndex(parts, energy)
            IN IF idx = 0 THEN Raised("ValueError")
               ELSE Rewritten(Join(SubSeq(parts, idx + 1, Len(parts)) \o serials))
       ELSE NoChange

\* _async_migrator(entity_entry): None when the unique_id already starts with
\* the serial numbers, else the serial numbers followed by what comes after the
\* last token equal to str(site_info.nominal_system_energy).
_async_migrator(uid, serials, energy) ==
    LET parts == Split(uid)
    IN IF Slice0(parts, Len(serials)) # serials
       THEN LET idx == LastIndex(parts, energy)
            IN IF idx = 0 THEN Raised("ValueError")
               ELSE Rewritten(Join(serials \o SubSeq(parts, idx + 1, Len(parts))))
       ELSE NoChange

\* _migrate_old_unique_ids: entity_registry.async_migrate_entries applies the
\* migrator to the registered entry and stores a returned new_unique_id; an
\* exception of the migrator propagates and leaves the registry as it was.
_migrate_old_unique_ids(uid, serials, energy) ==
    LET res == _async_migrator(uid, serials, energy)
    IN [result |-> res,
        raised |-> res.kind = "ValueError",
        unique_id |-> IF res.kind = "new_unique_id" THEN res.new_unique_id ELSE uid]

\* ------------------------------------------------------------------- state
MAX_LOGIN_FAILURES == 5

MaxSessions == 7    \* requests.Session objects one run may create
NumSnapshots == 2   \* distinct payloads a successful fetch may deliver

None == "None"
Passwords == {None, "pw"}
Snapshots == 1..NumSnapshots   \* 0 stands for coordinator.data = None

\* Exceptions of the tesla_powerwall client.  APIError is the base class of
\* MissingAttributeError only; AccessDeniedError and
\* PowerwallUnreachableError derive from PowerwallError directly.
AccessDeniedError == "AccessDeniedError"
APIError == "APIError"
MissingAttributeError == "MissingAttributeError"
PowerwallUnreachableError == "PowerwallUnreachableError"
DeviceErrors ==
    {AccessDeniedError, APIError, MissingAttributeError, PowerwallUnreachableError}
IsAPIError(exc) == exc \in {APIError, MissingAttributeError}

\* What one device call (login, bootstrap, fetch) may end in.
CallResults == {"ok"} \cup DeviceErrors

\* What the integration raises to the host.
UpdateFailed == "UpdateFailed"
ConfigEntryAuthFailed == "ConfigEntryAuthFailed"
ConfigEntryNotReady == "ConfigEntryNotReady"

VARIABLES
    password,               \* entry.data.get(CONF_PASSWORD)
    device_serials,         \* get_serial_numbers() as the gateway orders them
    nominal_system_energy,  \* str(site_info.nominal_system_energy)
    unique_id,              \* the registered entity's unique_id
    serial_numbers,         \* powerwall_data[POWERWALL_API_SERIAL_NUMBERS]
    mig,                    \* history of the migrator's runs
    phase,                  \* not_loaded, first_refresh, loaded, setup_failed, unloaded, unload_failed
    setup_result,           \* what async_setup_entry returned or raised
    boot,                   \* what _login_and_fetch_base_info ended in ("none": not run)
    http_session,           \* closure variable http_session (0: none yet)
    power_wall,             \* session inside the closure's Powerwall object
    runtime_data,           \* hass.data[DOMAIN][entry_id]
    login_failed_count,     \* closure variable login_failed_count
    coordinator_data,       \* coordinator.data, the Snapshot consumers read
    created,                \* number of requests.Session objects created
    closed,                 \* the sessions on which close() was called
    notices,                \* persistent notifications created
    pc,                     \* position inside async_update_data
    cyc,                    \* history of the refresh cycle in progress or just ended
    streak,                 \* cycles ended by access-denied at the retry since the last fresh data
    drift                   \* history of the first schema drift seen by a fetch

migVars == <<nominal_system_energy, unique_id, serial_numbers, mig>>
runVars ==
    <<password, device_serials, boot, phase, setup_result, http_session, power_wall,
      runtime_data, login_failed_count, coordinator_data, created, closed,
      notices, pc, cyc, streak, drift>>
vars == <<migVars, runVars>>

NoRuntimeData ==
    [registered |-> FALSE, api_changed |-> FALSE, http_session |-> 0, powerwall |-> 0]
NoCycle ==
    [pre |-> [data |-> 0, count |-> 0, api_changed |-> FALSE, session |-> 0,
              notices |-> 0, closed |-> {}],
     fetches |-> 0, logins |-> 0, outcome |-> "none", fetched |-> FALSE,
     retry_denied |-> FALSE, short |-> FALSE, raised |-> {},
     fetched_on |-> <<>>, login_on |-> 0, stale_fetch |-> FALSE]
NoDrift == [seen |-> FALSE, data |-> 0, notices |-> 0]

RunInit ==
    /\ password \in Passwords
    /\ phase = "not_loaded"
    /\ setup_result = "none"
    /\ boot = "none"
    /\ http_session = 0
    /\ power_wall = 0
    /\ runtime_data = NoRuntimeData
    /\ login_failed_count = 0
    /\ coordinator_data = 0
    /\ created = 0
    /\ closed = {}
    /\ notices = 0
    /\ pc = "idle"
    /\ cyc = NoCycle
    /\ streak = 0
    /\ drift = NoDrift

\* ----------------------------------------------------- migrator in isolation
\* Serial numbers never hold the separator; the energy token is a number.
SerialTokens == {<<"1">>, <<"a">>, <<"a", "a">>}
EnergyTokens == {<<"1">>, <<"1", "1">>}
SerialLists ==
    {l \in UNION {[1..k -> SerialTokens] : k \in 0..MaxSerials} :
        \A i \in 1..(Len(l) - 1) : StrLess(l[i], l[i + 1])}

NoMig == [runs |-> 0, orig |-> <<>>, results |-> <<>>]

MigInit ==
    /\ serial_numbers \in SerialLists
    /\ nominal_system_energy \in EnergyTokens
    /\ unique_id \in Strings(MaxIdLen)
    /\ device_serials = serial_numbers
    /\ mig = [NoMig EXCEPT !.orig = unique_id]
    /\ RunInit
    /\ password = None

\* One run of _migrate_old_unique_ids over the registry entry.
MigrateEntries ==
    /\ mig.runs < MaxMigrations
    /\ LET m == _migrate_old_unique_ids(unique_id, serial_numbers, nominal_system_energy)
       IN /\ unique_id' = m.unique_id
          /\ mig' = [mig EXCEPT !.runs = @ + 1, !.results = Append(@, m.result)]
    /\ UNCHANGED <<nominal_system_energy, serial_numbers, runVars>>

MigNext == MigrateEntries
SpecMig == MigInit /\ [][MigNext]_vars

\* -------------------------------------------------- refresh cycle: helpers
\* Variant: device unreachable is answered like schema drift's "no data".
UpdateDataUnreachableClearsData(res, fresh, cached) ==
    IF res = "ok" THEN [kind |-> "return", data |-> fresh, exc |-> "none", api_changed |-> FALSE]
    ELSE IF res = PowerwallUnreachableError
    THEN [kind |-> "return", data |-> 0, exc |-> "none", api_changed |-> FALSE]
    ELSE IF res = MissingAttributeError
    THEN [kind |-> "return", data |-> cached, exc |-> "none", api_changed |-> TRUE]
    ELSE [kind |-> "raise", data |-> 0, exc |-> res, api_changed |-> FALSE]

\* _async_update_powerwall_data: the fetch's payload; UpdateFailed when the
\* device is unreachable; on a missing attribute the notice, the api_changed
\* flag and the coordinator's cached data; any other exception unhandled.
_async_update_powerwall_data(res, fresh, cached) ==
    IF res = "ok" THEN [kind |-> "return", data |-> fresh, exc |-> "none", api_changed |-> FALSE]
    ELSE IF res = PowerwallUnreachableError
    THEN [kind |-> "raise", data |-> 0, exc |-> UpdateFailed, api_changed |-> FALSE]
    ELSE IF res = MissingAttributeError
    THEN [kind |-> "return", data |-> cached, exc |-> "none", api_changed |-> TRUE]
    ELSE [kind |-> "raise", data |-> 0, exc |-> res, api_changed |-> FALSE]

\* Variant: a denied fetch always goes to the re-login, password or not.
UpdateDataAlwaysRetries(r, pw, count) ==
    IF r.kind = "return" THEN [next |-> "done", outcome |-> "Returned", count |-> 0]
    ELSE IF r.exc = AccessDeniedError
    THEN [next |-> "relogin", outcome |-> "none", count |-> count]
    ELSE IF IsAPIError(r.exc) THEN [next |-> "done", outcome |-> UpdateFailed, count |-> count]
    ELSE [next |-> "done", outcome |-> r.exc, count |-> count]

\* Variant: the direct fetch's success leaves login_failed_count alone.
UpdateDataKeepsCount(r, pw, count) ==
    IF r.kind = "return" THEN [next |-> "done", outcome |-> "Returned", count |-> count]
    ELSE IF r.exc = AccessDeniedError
    THEN IF pw = None
         THEN [next |-> "done", outcome |-> ConfigEntryAuthFailed, count |-> count]
         ELSE [next |-> "relogin", outcome |-> "none", count |-> count]
    ELSE IF IsAPIError(r.exc) THEN [next |-> "done", outcome |-> UpdateFailed, count |-> count]
    ELSE [next |-> "done", outcome |-> r.exc, count |-> count]

\* async_update_data, the try statement around the first fetch: what the
\* routine does with the fetch's result r.
async_update_data(r, pw, count) ==
    IF r.kind = "return" THEN [next |-> "done", outcome |-> "Returned", count |-> 0]
    ELSE IF r.exc = AccessDeniedError
    THEN IF pw = None
         THEN [next |-> "done", outcome |-> ConfigEntryAuthFailed, count |-> count]
         ELSE [next |-> "relogin", outcome |-> "none", count |-> count]
    ELSE IF IsAPIError(r.exc) THEN [next |-> "done", outcome |-> UpdateFailed, count |-> count]
    ELSE [next |-> "done", outcome |-> r.exc, count |-> count]

\* Variant: the ceiling is tested before the counter is incremented.
RetryTestsCeilingFirst(r, count) ==
    IF r.kind = "return" THEN [outcome |-> "Returned", count |-> 0]
    ELSE IF r.exc = AccessDeniedError
    THEN [outcome |-> IF count = MAX_LOGIN_FAILURES THEN ConfigEntryAuthFailed ELSE UpdateFailed,
          count |-> count + 1]
    ELSE IF IsAPIError(r.exc) THEN [outcome |-> UpdateFailed, count |-> count]
    ELSE [outcome |-> r.exc, count |-> count]

\* Variant: an API error during the retry counts as a failed login.
RetryCountsApiError(r, count) ==
    IF r.kind = "return" THEN [outcome |-> "Returned", count |-> 0]
    ELSE IF r.exc = AccessDeniedError
    THEN [outcome |-> IF count + 1 = MAX_LOGIN_FAILURES THEN ConfigEntryAuthFailed ELSE UpdateFailed,
          count |-> count + 1]
    ELSE IF IsAPIError(r.exc) THEN [outcome |-> UpdateFailed, count |-> count + 1]
    ELSE [outcome |-> r.exc, count |-> count]

\* _async_login_and_retry_update_data, the except and else clauses: what the
\* retry does with the result r of the login or of the second fetch.
_async_login_and_retry_update_data(r, count) ==
    IF r.kind = "return" THEN [outcome |-> "Returned", count |-> 0]
    ELSE IF r.exc = AccessDeniedError
    THEN [outcome |-> IF count + 1 = MAX_LOGIN_FAILURES THEN ConfigEntryAuthFailed ELSE UpdateFailed,
          count |-> count + 1]
    ELSE IF IsAPIError(r.exc) THEN [outcome |-> UpdateFailed, count |-> count]
    ELSE [outcome |-> r.exc, count |-> count]

\* Variant: the degraded flag is not consulted.
NeverShortCircuits(rt) == FALSE

\* async_update_data's first test: a flagged API change serves the cache.
api_changed_short_circuit(rt) == rt.api_changed

RaisedBy(call, res) == IF res = "ok" THEN {} ELSE {<<call, res>>}

\* The cycle's history when async_update_data is entered.
NewCycle ==
    [NoCycle EXCEPT !.pre = [data |-> coordinator_data, count |-> login_failed_count,
                             api_changed |-> runtime_data.api_changed,
                             session |-> http_session, notices |-> notices,
                             closed |-> closed]]

\* The routine ends: the coordinator stores returned data and keeps the old
\* data on any exception.
EndCycle(c, outcome, data, count, fetched, denied) ==
    /\ pc' = "done"
    /\ cyc' = [c EXCEPT !.outcome = outcome, !.fetched = fetched, !.retry_denied = denied]
    /\ coordinator_data' = IF outcome = "Returned" THEN data ELSE coordinator_data
    /\ login_failed_count' = count
    /\ streak' = IF fetched THEN 0 ELSE IF denied THEN streak + 1 ELSE streak

\* A fetch's side effects on a missing attribute: the notice and the flag.
ApiChanged(res, r) ==
    /\ notices' = IF r.api_changed THEN notices + 1 ELSE notices
    /\ runtime_data' = [runtime_data EXCEPT !.api_changed = @ \/ r.api_changed]
    /\ drift' = IF res = MissingAttributeError /\ ~drift.seen
                THEN [seen |-> TRUE, data |-> cyc.pre.data, notices |-> cyc.pre.notices]
                ELSE drift

\* ------------------------------------------------------------------- setup
\* The registered identifiers and serial orders the full run starts from.
RegistryIds == {<<"1", "_", "a">>, <<"a", "_", "a">>, <<"a", "a">>}
DeviceSerialOrders ==
    {l \in UNION {[1..k -> SerialTokens] : k \in 0..MaxSerials} :
        \A i, j \in 1..Len(l) : i # j => l[i] # l[j]}

Init ==
    /\ RunInit
    /\ device_serials \in DeviceSerialOrders
    /\ nominal_system_energy = <<"1">>
    /\ unique_id \in RegistryIds
    /\ serial_numbers = <<>>
    /\ mig = [NoMig EXCEPT !.orig = unique_id]

\* Variant: the serial numbers are stored as the gateway ordered them.
BaseInfoUnsorted(serials) == serials

\* call_base_info: the serial numbers are sorted in place.
call_base_info(serials) == Sort(serials)

\* Variant: an unreachable gateway leaves the session open.
SetupExceptLeavesSessionOpen(res) ==
    CASE res = PowerwallUnreachableError ->
            [result |-> ConfigEntryNotReady, close |-> FALSE, notice |-> FALSE]
      [] res = MissingAttributeError -> [result |-> "False", close |-> TRUE, notice |-> TRUE]
      [] res = AccessDeniedError ->
            [result |-> ConfigEntryAuthFailed, close |-> TRUE, notice |-> FALSE]
      [] OTHER -> [result |-> res, close |-> FALSE, notice |-> FALSE]

\* async_setup_entry's except clauses around _login_and_fetch_base_info: what
\* setup returns or raises, whether the session is closed and whether the
\* notice is created; an exception without a clause leaves setup as it is.
setup_except(res) ==
    CASE res = PowerwallUnreachableError ->
            [result |-> ConfigEntryNotReady, close |-> TRUE, notice |-> FALSE]
      [] res = MissingAttributeError -> [result |-> "False", close |-> TRUE, notice |-> TRUE]
      [] res = AccessDeniedError ->
            [result |-> ConfigEntryAuthFailed, close |-> TRUE, notice |-> FALSE]
      [] OTHER -> [result |-> res, close |-> FALSE, notice |-> FALSE]

\* async_setup_entry up to the first refresh: session and client are created,
\* bootstrap runs, identifiers are migrated, runtime data is registered.
SetupEntry ==
    /\ phase = "not_loaded"
    /\ created' = 1
    /\ http_session' = 1
    /\ power_wall' = 1
    /\ \E res \in CallResults :
        /\ boot' = res
        /\ IF res = "ok"
           THEN LET sorted == call_base_info(device_serials)
                    m == _migrate_old_unique_ids(unique_id, sorted, nominal_system_energy)
                IN /\ serial_numbers' = sorted
                   /\ unique_id' = m.unique_id
                   /\ mig' = [mig EXCEPT !.runs = @ + 1, !.results = Append(@, m.result)]
                   /\ IF m.raised
                      THEN /\ phase' = "setup_failed"
                           /\ setup_result' = m.result.kind
                           /\ UNCHANGED runtime_data
                      ELSE /\ phase' = "first_refresh"
                           /\ setup_result' = "none"
                           /\ runtime_data' = [registered |-> TRUE, api_changed |-> FALSE,
                                               http_session |-> 1, powerwall |-> 1]
                   /\ UNCHANGED <<closed, notices>>
           ELSE /\ phase' = "setup_failed"
                /\ setup_result' = setup_except(res).result
                /\ closed' = IF setup_except(res).close THEN closed \cup {1} ELSE closed
                /\ notices' = IF setup_except(res).notice THEN notices + 1 ELSE notices
                /\ UNCHANGED <<serial_numbers, unique_id, mig, runtime_data>>
    /\ UNCHANGED <<password, device_serials, nominal_system_energy, login_failed_count,
                   coordinator_data, pc, cyc, streak, drift>>

\* coordinator.async_config_entry_first_refresh() has run one cycle: setup
\* returns True after data was returned, and raises otherwise.
FirstRefreshDone ==
    /\ phase = "first_refresh"
    /\ pc = "done"
    /\ phase' = IF cyc.outcome = "Returned" THEN "loaded" ELSE "setup_failed"
    /\ setup_result' = IF cyc.outcome = "Returned" THEN "True"
                       ELSE IF cyc.outcome = ConfigEntryAuthFailed THEN ConfigEntryAuthFailed
                       ELSE ConfigEntryNotReady
    /\ pc' = "idle"
    /\ UNCHANGED <<migVars, password, device_serials, boot, http_session, power_wall, runtime_data,
                   login_failed_count, coordinator_data, created, closed, notices, cyc,
                   streak, drift>>

\* async_unload_entry: the session recorded in the runtime data is closed;
\* the runtime data is dropped when the platforms unloaded.
UnloadEntry ==
    /\ phase = "loaded"
    /\ pc \in {"idle", "done"}
    /\ closed' = closed \cup {runtime_data.http_session}
    /\ \E unload_ok \in BOOLEAN :
        /\ phase' = IF unload_ok THEN "unloaded" ELSE "unload_failed"
        /\ runtime_data' = IF unload_ok THEN NoRuntimeData ELSE runtime_data
    /\ pc' = "idle"
    /\ UNCHANGED <<migVars, password, device_serials, boot, setup_result, http_session, power_wall,
                   login_failed_count, coordinator_data, created, notices, cyc, streak, drift>>

\* ----------------------------------------------------------- refresh cycle
\* The scheduler calls async_update_data: cycles never overlap.
RefreshStart ==
    /\ \/ phase = "first_refresh" /\ pc = "idle"
       \/ phase = "loaded" /\ pc \in {"idle", "done"}
    /\ IF api_changed_short_circuit(runtime_data)
       THEN /\ EndCycle([NewCycle EXCEPT !.short = TRUE], "Returned", coordinator_data,
                        login_failed_count, FALSE, FALSE)
       ELSE /\ pc' = "fetch"
            /\ cyc' = NewCycle
            /\ UNCHANGED <<login_failed_count, coordinator_data, streak>>
    /\ UNCHANGED <<migVars, password, device_serials, boot, phase, setup_result, http_session,
                   power_wall, runtime_data, created, closed, notices, drift>>

\* The first fetch and async_update_data's handling of its result.
InitialFetch ==
    /\ pc = "fetch"
    /\ \E res \in CallResults, fresh \in Snapshots :
        LET r == _async_update_powerwall_data(res, fresh, coordinator_data)
            h == async_update_data(r, password, login_failed_count)
            c == [cyc EXCEPT !.fetches = @ + 1, !.raised = @ \cup RaisedBy("fetch", res),
                             !.fetched_on = Append(@, power_wall),
                             !.stale_fetch = @ \/ power_wall \in closed]
        IN /\ ApiChanged(res, r)
           /\ IF h.next = "relogin"
              THEN /\ created < MaxSessions
                   /\ pc' = "relogin_close"
                   /\ cyc' = c
                   /\ UNCHANGED <<login_failed_count, coordinator_data, streak>>
              ELSE EndCycle(c, h.outcome, r.data, h.count, res = "ok", FALSE)
    /\ UNCHANGED <<migVars, password, device_serials, boot, phase, setup_result, http_session,
                   power_wall, created, closed>>

\* _recreate_powerwall_login, http_session.close().
ReloginClose ==
    /\ pc = "relogin_close"
    /\ closed' = closed \cup {http_session}
    /\ pc' = "relogin_new"
    /\ UNCHANGED <<migVars, password, device_serials, boot, phase, setup_result, http_session,
                   power_wall, runtime_data, login_failed_count, coordinator_data, created,
                   notices, cyc, streak, drift>>

\* Variant: power_wall is not declared nonlocal, the closure keeps the old client.
ReloginKeepsOldClient(new, pw, rt) ==
    [http_session |-> new, power_wall |-> pw,
     runtime_data |-> [rt EXCEPT !.powerwall = new, !.http_session = new]]

\* Variant: the runtime data's session entry is not replaced.
ReloginKeepsRuntimeSession(new, pw, rt) ==
    [http_session |-> new, power_wall |-> new,
     runtime_data |-> [rt EXCEPT !.powerwall = new]]

\* Variant: the runtime data's client entry is not replaced.
ReloginKeepsRuntimeClient(new, pw, rt) ==
    [http_session |-> new, power_wall |-> new,
     runtime_data |-> [rt EXCEPT !.http_session = new]]

\* _recreate_powerwall_login after the close: the closure's http_session and
\* power_wall are rebound to the new session and to a client built on it, and
\* both are stored in the runtime data.
_recreate_powerwall_login(new, pw, rt) ==
    [http_session |-> new, power_wall |-> new,
     runtime_data |-> [rt EXCEPT !.powerwall = new, !.http_session = new]]

\* _recreate_powerwall_login, the new session and client and their
\* installation in the runtime data.
ReloginNew ==
    /\ pc = "relogin_new"
    /\ created' = created + 1
    /\ LET b == _recreate_powerwall_login(created + 1, power_wall, runtime_data)
       IN /\ http_session' = b.http_session
          /\ power_wall' = b.power_wall
          /\ runtime_data' = b.runtime_data
    /\ pc' = "relogin_login"
    /\ UNCHANGED <<migVars, password, device_serials, boot, phase, setup_result,
                   login_failed_count, coordinator_data, closed, notices, cyc, streak, drift>>

\* _recreate_powerwall_login, power_wall.login(password), and the retry's
\* handling of an exception of the login.
ReloginLogin ==
    /\ pc = "relogin_login"
    /\ \E res \in CallResults :
        LET c == [cyc EXCEPT !.logins = @ + 1, !.raised = @ \cup RaisedBy("login", res),
                             !.login_on = power_wall]
            h == _async_login_and_retry_update_data(
                     [kind |-> "raise", data |-> 0, exc |-> res, api_changed |-> FALSE],
                     login_failed_count)
        IN IF res = "ok"
           THEN /\ pc' = "retry_fetch"
                /\ cyc' = c
                /\ UNCHANGED <<login_failed_count, coordinator_data, streak>>
           ELSE EndCycle(c, h.outcome, coordinator_data, h.count, FALSE,
                         res = AccessDeniedError)
    /\ UNCHANGED <<migVars, password, device_serials, boot, phase, setup_result, http_session,
                   power_wall, runtime_data, created, closed, notices, drift>>

\* The second fetch and the retry's handling of its result.
RetryFetch ==
    /\ pc = "retry_fetch"
    /\ \E res \in CallResults, fresh \in Snapshots :
        LET r == _async_update_powerwall_data(res, fresh, coordinator_data)
            h == _async_login_and_retry_update_data(r, login_failed_count)
            c == [cyc EXCEPT !.fetches = @ + 1, !.raised = @ \cup RaisedBy("retry_fetch", res),
                             !.fetched_on = Append(@, power_wall),
                             !.stale_fetch = @ \/ power_wall \in closed]
        IN /\ ApiChanged(res, r)
           /\ EndCycle(c, h.outcome, r.data, h.count, res = "ok", res = AccessDeniedError)
    /\ UNCHANGED <<migVars, password, device_serials, boot, phase, setup_result, http_session,
                   power_wall, created, closed>>

Next ==
    \/ SetupEntry
    \/ FirstRefreshDone
    \/ UnloadEntry
    \/ RefreshStart
    \/ InitialFetch
    \/ ReloginClose
    \/ ReloginNew
    \/ ReloginLogin
    \/ RetryFetch

Spec == Init /\ [][Next]_vars

\* ================================================================== claims
RaisedIn(call, exc) == <<call, exc>> \in cyc.raised
OpenSessions == {x \in 1..created : x \notin closed}
CycleEnded == pc = "done"

\* C1: with a credential, counting from a counter of 0 and without fresh data
\* in between, the k-th cycle whose re-login-and-retry step ends in access
\* denied raises UpdateFailed for k = 1..4 and ConfigEntryAuthFailed at k = 5.
C1_FifthDeniedRetrySignalsReauth ==
    (CycleEnded /\ password # None /\ cyc.retry_denied) =>
        /\ streak \in 1..(MAX_LOGIN_FAILURES - 1) => cyc.outcome = UpdateFailed
        /\ streak = MAX_LOGIN_FAILURES => cyc.outcome = ConfigEntryAuthFailed

C1_Witness ==
    /\ CycleEnded /\ password # None /\ cyc.retry_denied
    /\ streak = MAX_LOGIN_FAILURES
    /\ cyc.outcome = ConfigEntryAuthFailed

\* C2: a cycle that returns freshly fetched data, from the first fetch or from
\* the retry after a re-login, ends with login_failed_count = 0.
C2_FreshDataResetsCounter ==
    (CycleEnded /\ cyc.fetched) =>
        /\ cyc.outcome = "Returned"
        /\ login_failed_count = 0

C2_Witness ==
    /\ CycleEnded /\ cyc.fetched
    /\ cyc.logins = 1
    /\ cyc.pre.count >= 2
    /\ login_failed_count = 0

\* C3 as stated: a cycle in which a fetch raises device-unreachable raises
\* UpdateFailed and leaves the Snapshot, the counter, the flag and the current
\* session as they were before the cycle.
C3_UnreachableChangesNothing ==
    (CycleEnded /\ (RaisedIn("fetch", PowerwallUnreachableError)
                    \/ RaisedIn("retry_fetch", PowerwallUnreachableError))) =>
        /\ cyc.outcome = UpdateFailed
        /\ coordinator_data = cyc.pre.data
        /\ login_failed_count = cyc.pre.count
        /\ runtime_data.api_changed = cyc.pre.api_changed
        /\ http_session = cyc.pre.session
        /\ runtime_data.http_session = cyc.pre.session

\* C3 amended: such a cycle raises UpdateFailed and leaves the Snapshot, the
\* counter and the flag unchanged; the session is unchanged when the first
\* fetch was the unreachable one, and is the session the cycle's re-login
\* installed when the retry fetch was.
C3_UnreachableKeepsSnapshot ==
    /\ (CycleEnded /\ (RaisedIn("fetch", PowerwallUnreachableError)
                       \/ RaisedIn("retry_fetch", PowerwallUnreachableError))) =>
          /\ cyc.outcome = UpdateFailed
          /\ coordinator_data = cyc.pre.data
          /\ login_failed_count = cyc.pre.count
          /\ runtime_data.api_changed = cyc.pre.api_changed
    /\ (CycleEnded /\ RaisedIn("fetch", PowerwallUnreachableError)) =>
          /\ http_session = cyc.pre.session
          /\ runtime_data.http_session = cyc.pre.session
          /\ closed = cyc.pre.closed
    /\ (CycleEnded /\ RaisedIn("retry_fetch", PowerwallUnreachableError)) =>
          /\ cyc.logins = 1
          /\ http_session # cyc.pre.session
          /\ runtime_data.http_session = http_session
          /\ closed = cyc.pre.closed \cup {cyc.pre.session}

C3_Witness ==
    /\ CycleEnded
    /\ RaisedIn("retry_fetch", PowerwallUnreachableError)
    /\ cyc.pre.data # 0
    /\ cyc.pre.count > 0
    /\ coordinator_data = cyc.pre.data

\* C4: once a fetch has raised a missing attribute, the api_changed flag stays
\* set while the runtime data exists, the Snapshot stays the one from before
\* that cycle, every later cycle returns it without a device call, and exactly
\* one notice was created.
C4_DriftDegradesForGood ==
    drift.seen =>
        /\ runtime_data.registered => runtime_data.api_changed
        /\ coordinator_data = drift.data
        /\ notices = drift.notices + 1
        /\ (CycleEnded /\ cyc.pre.api_changed) =>
              /\ cyc.outcome = "Returned"
              /\ cyc.fetches = 0
              /\ cyc.logins = 0
              /\ http_session = cyc.pre.session

C4_Witness ==
    /\ drift.seen
    /\ drift.data # 0
    /\ CycleEnded /\ cyc.pre.api_changed
    /\ cyc.outcome = "Returned"
    /\ notices = 1

\* C5: without a password, an access-denied fetch raises
\* ConfigEntryAuthFailed in the same cycle: no login, no new session, no
\* second fetch, counter unchanged.
C5_NoPasswordDeniedIsTerminal ==
    /\ password = None => pc \notin {"relogin_close", "relogin_new", "relogin_login", "retry_fetch"}
    /\ (CycleEnded /\ password = None /\ RaisedIn("fetch", AccessDeniedError)) =>
          /\ cyc.outcome = ConfigEntryAuthFailed
          /\ cyc.logins = 0
          /\ cyc.fetches = 1
          /\ http_session = cyc.pre.session
          /\ runtime_data.http_session = cyc.pre.session
          /\ closed = cyc.pre.closed
          /\ login_failed_count = cyc.pre.count

C5_Witness ==
    /\ CycleEnded /\ password = None /\ RaisedIn("fetch", AccessDeniedError)
    /\ phase = "loaded"
    /\ cyc.outcome = ConfigEntryAuthFailed

\* C6 as stated: every invocation of the refresh routine ends in returned
\* data, UpdateFailed or ConfigEntryAuthFailed; no exception of the device
\* client reaches the scheduler.
C6_OnlyTranslatedOutcomes ==
    CycleEnded => cyc.outcome \in {"Returned", UpdateFailed, ConfigEntryAuthFailed}

\* C7 as stated: during a re-login there is no state without an open session:
\* the old session is closed only after the new one is installed.
C7_ReloginKeepsAnOpenSession ==
    pc \in {"relogin_close", "relogin_new", "relogin_login", "retry_fetch"} =>
        OpenSessions # {}

\* Tokens of the identifier the migrator was first run on.
OrigParts == Split(mig.orig)
StartsWithSerials(parts) ==
    /\ Len(parts) >= Len(serial_numbers)
    /\ \A i \in 1..Len(serial_numbers) : parts[i] = serial_numbers[i]
HasToken(toks, tok) == \E i \in 1..Len(toks) : toks[i] = tok

\* C8 as stated: an identifier made of the energy token followed by any
\* tokens X, not prefixed by the serial numbers S, is rewritten to S followed
\* by X, joined by underscores.
C8_LegacyIdBecomesSerialsPlusSuffix ==
    (mig.runs >= 1 /\ OrigParts[1] = nominal_system_energy
                   /\ ~StartsWithSerials(OrigParts)) =>
        mig.results[1] = Rewritten(Join(serial_numbers \o Tail(OrigParts)))

\* C8 amended: the same, for suffixes X that hold no token equal to the
\* energy token.
C8_LegacyIdWithPlainSuffix ==
    (mig.runs >= 1 /\ OrigParts[1] = nominal_system_energy
                   /\ ~StartsWithSerials(OrigParts)
                   /\ ~HasToken(Tail(OrigParts), nominal_system_energy)) =>
        mig.results[1] = Rewritten(Join(serial_numbers \o Tail(OrigParts)))

C8_Witness ==
    /\ mig.runs = 1
    /\ mig.orig = <<"1", "_", "a">>
    /\ nominal_system_energy = <<"1">>
    /\ serial_numbers = << <<"a">>, <<"a", "a">> >>
    /\ unique_id = <<"a", "_", "a", "a", "_", "a">>

\* C9: an identifier that starts with the serial numbers is not rewritten, and
\* an identifier the migrator rewrote is not rewritten by a second run.
C9_MigrationIdempotent ==
    /\ (mig.runs >= 1 /\ StartsWithSerials(OrigParts)) =>
          /\ mig.results[1] = NoChange
          /\ unique_id = mig.orig
    /\ (mig.runs >= 2 /\ mig.results[1].kind = "new_unique_id") =>
          /\ mig.results[2] = NoChange
          /\ unique_id = mig.results[1].new_unique_id

C9_Witness ==
    /\ mig.runs = 2
    /\ mig.results[1].kind = "new_unique_id"
    /\ mig.results[2] = NoChange
    /\ Len(serial_numbers) = 2
    /\ unique_id # mig.orig

\* C10 as stated: an API error other than access denied raised by the login
\* or by the retry fetch makes the cycle raise UpdateFailed and leaves the
\* counter as it was.
C10_ApiErrorInRetryIsTransient ==
    (CycleEnded /\ \E call \in {"login", "retry_fetch"} :
                     \E exc \in {APIError, MissingAttributeError} : RaisedIn(call, exc)) =>
        /\ cyc.outcome = UpdateFailed
        /\ login_failed_count = cyc.pre.count

\* C10 amended: the same, except for a missing attribute raised by the retry
\* fetch, which is answered as schema drift.
C10_ApiErrorInRetryExceptDrift ==
    (CycleEnded /\ (\/ RaisedIn("login", APIError)
                    \/ RaisedIn("login", MissingAttributeError)
                    \/ RaisedIn("retry_fetch", APIError))) =>
        /\ cyc.outcome = UpdateFailed
        /\ login_failed_count = cyc.pre.count

C10_Witness ==
    /\ CycleEnded
    /\ RaisedIn("retry_fetch", APIError)
    /\ cyc.pre.count > 0
    /\ cyc.outcome = UpdateFailed

\* C11 as stated: login_failed_count stays within 0..5, and once it is 5 a
\* further denied retry neither raises it nor falls back to UpdateFailed.
C11_CounterStaysWithinCeiling ==
    /\ login_failed_count \in 0..MAX_LOGIN_FAILURES
    /\ (CycleEnded /\ cyc.retry_denied /\ cyc.pre.count >= MAX_LOGIN_FAILURES) =>
          /\ cyc.outcome = ConfigEntryAuthFailed
          /\ login_failed_count = cyc.pre.count

\* C12: a cycle makes at most two fetches and one login; when its first fetch
\* is denied and a password is configured it performs exactly one re-login,
\* and the retry fetch, like every fetch, goes to the session that is
\* installed and open at that moment, never to a closed one.
C12_OneReloginThenFreshSession ==
    /\ cyc.fetches <= 2
    /\ cyc.logins <= 1
    /\ ~cyc.stale_fetch
    /\ Len(cyc.fetched_on) >= 1 => cyc.fetched_on[1] = cyc.pre.session
    /\ (CycleEnded /\ password # None /\ RaisedIn("fetch", AccessDeniedError)) =>
          /\ cyc.logins = 1
          /\ cyc.login_on = http_session
          /\ http_session # cyc.pre.session
          /\ cyc.pre.session \in closed
          /\ http_session \notin closed
          /\ cyc.fetches = 2 => cyc.fetched_on[2] = http_session
    /\ (pc = "fetch" /\ phase \in {"first_refresh", "loaded"}) =>
          /\ power_wall = http_session
          /\ power_wall \notin closed

C12_Witness ==
    /\ CycleEnded /\ password # None /\ RaisedIn("fetch", AccessDeniedError)
    /\ cyc.fetches = 2
    /\ cyc.pre.session >= 2
    /\ cyc.fetched_on = <<cyc.pre.session, http_session>>
    /\ http_session = cyc.pre.session + 1

\* C13: when bootstrap ends in device unreachable, access denied or a missing
\* attribute, setup raises ConfigEntryNotReady, raises ConfigEntryAuthFailed,
\* or creates one notice and returns False; in each case the session is
\* closed, no runtime data is registered, no identifier is migrated and no
\* refresh ever runs.
C13_BootstrapFailureCleansUp ==
    boot \in {PowerwallUnreachableError, AccessDeniedError, MissingAttributeError} =>
        /\ phase = "setup_failed"
        /\ setup_result = CASE boot = PowerwallUnreachableError -> ConfigEntryNotReady
                            [] boot = AccessDeniedError -> ConfigEntryAuthFailed
                            [] boot = MissingAttributeError -> "False"
        /\ notices = IF boot = MissingAttributeError THEN 1 ELSE 0
        /\ created = 1
        /\ OpenSessions = {}
        /\ ~runtime_data.registered
        /\ mig.runs = 0
        /\ unique_id = mig.orig
        /\ pc = "idle"
        /\ cyc = NoCycle

C13_Witness ==
    /\ boot = MissingAttributeError
    /\ phase = "setup_failed"
    /\ setup_result = "False"
    /\ notices = 1
    /\ closed = {1}

\* C14: after unload no session this entry created is open: unload closes the
\* session the latest re-login installed.
C14_UnloadClosesCurrentSession ==
    phase \in {"unloaded", "unload_failed"} =>
        /\ OpenSessions = {}
        /\ http_session \in closed

C14_Witness ==
    /\ phase = "unloaded"
    /\ created >= 3
    /\ http_session = created
    /\ closed = 1..created

\* The ascending list of a set of serial numbers, whatever order they came in.
CanonicalSerials(set) ==
    CHOOSE l \in [1..Cardinality(set) -> set] :
        \A i \in 1..(Cardinality(set) - 1) : StrLess(l[i], l[i + 1])
SerialSet(l) == {l[i] : i \in 1..Len(l)}

\* C15: whatever order the gateway reports its serial numbers in, the stored
\* list is the ascending list of that set, and the migrator ran with it.
C15_SerialsStoredSorted ==
    boot = "ok" =>
        /\ IsSorted(serial_numbers)
        /\ serial_numbers = CanonicalSerials(SerialSet(device_serials))
        /\ mig.results[1] = _async_migrator(mig.orig, CanonicalSerials(SerialSet(device_serials)),
                                            nominal_system_energy)

C15_Witness ==
    /\ boot = "ok"
    /\ device_serials = << <<"a", "a">>, <<"1">> >>
    /\ serial_numbers = << <<"1">>, <<"a", "a">> >>
    /\ mig.runs = 1

\* C17 as stated: the migrator returns None or a new identifier for every
\* registered identifier, and setup goes on to the first refresh.
C17_MigratorNeverRaises ==
    mig.runs >= 1 =>
        /\ mig.results[1].kind \in {"None", "new_unique_id"}
        /\ setup_result # "ValueError"

\* C18: between cycles of a loaded entry the session in the runtime data, the
\* session of the client the next fetch uses and the closure's session are
\* one object, the client in the runtime data is that client, and it is the
\* only open session.
C18_OneCurrentSessionBetweenCycles ==
    (phase = "loaded" /\ pc \in {"idle", "done"}) =>
        /\ runtime_data.http_session = http_session
        /\ power_wall = http_session
        /\ runtime_data.powerwall = power_wall
        /\ OpenSessions = {http_session}

C18_Witness ==
    /\ phase = "loaded" /\ pc = "done"
    /\ created >= 3
    /\ cyc.logins = 1
    /\ RaisedIn("login", AccessDeniedError)
    /\ runtime_data.http_session = created
    /\ OpenSessions = {created}

\* C19 as stated: a setup that did not succeed leaves no open session and no
\* registered runtime data.
C19_FailedSetupLeavesNothing ==
    phase = "setup_failed" =>
        /\ OpenSessions = {}
        /\ ~runtime_data.registered

\* C20 as stated: once setup has returned True, coordinator.data is never
\* None.
C20_SnapshotPresentAfterSetup ==
    setup_result = "True" => coordinator_data \in Snapshots

====
